---- MODULE Spec2Model ----
(***************************************************************************)
(* A model of the Birocrat form engine (packages/birocrat/src/lib.rs):     *)
(* the `Form` state machine that polls a driver script, keeps the history  *)
(* of answered questions (`script_states`), the answer cache               *)
(* (`cached_answers`) and the not-yet-answered step (`next_state`).        *)
(*                                                                         *)
(* The driver script is an input of the engine.  It is modelled as a pure  *)
(* function `Main` from (inner state, answer, parameters) to a raw Lua     *)
(* return table; the engine decodes that table with `from_lua`.            *)
(***************************************************************************)
EXTENDS Integers, Sequences, FiniteSets, TLC

(***************************************************************************)
(* Bounds of the model.                                                    *)
(***************************************************************************)
\* Largest question index a caller passes to progress_with_answer / get_question.
MaxIdx == 4
\* Longest selection a caller passes in an Answer::Options.
MaxSel == 2
\* Number of committed progress calls followed by the counting specification.
MaxCalls == 6

(***************************************************************************)
(* Option<T>                                                               *)
(***************************************************************************)
None == [some |-> FALSE]
Some(x) == [some |-> TRUE, v |-> x]

(***************************************************************************)
(* Lua values (mlua::Value), tagged by their Lua type.  A table with       *)
(* string keys is a record; a table with a sequence part is an "array".    *)
(* "null" is the light userdata mlua uses for a serialized null.           *)
(***************************************************************************)
Nil == [lt |-> "nil"]
LNull == [lt |-> "null"]
LStr(s) == [lt |-> "string", v |-> s]
LBool(b) == [lt |-> "boolean", v |-> b]
LNum(n) == [lt |-> "number", v |-> n]
LTable(rec) == [lt |-> "table", v |-> rec]
LArr(seq) == [lt |-> "array", v |-> seq]

(***************************************************************************)
(* serde_json::Value                                                       *)
(***************************************************************************)
JNull == [jt |-> "null"]
JStr(s) == [jt |-> "string", v |-> s]
JBool(b) == [jt |-> "boolean", v |-> b]
JNum(n) == [jt |-> "number", v |-> n]
JObj(rec) == [jt |-> "object", v |-> rec]
JArr(seq) == [jt |-> "array", v |-> seq]

\* serde_json::to_value(<lua value>): the serialized copy of a Lua value.
RECURSIVE LuaToJson(_)
LuaToJson(l) ==
    CASE l.lt = "nil" -> JNull
      [] l.lt = "null" -> JNull
      [] l.lt = "string" -> JStr(l.v)
      [] l.lt = "boolean" -> JBool(l.v)
      [] l.lt = "number" -> JNum(l.v)
      [] l.lt = "table" -> JObj([f \in DOMAIN l.v |-> LuaToJson(l.v[f])])
      [] l.lt = "array" -> JArr([i \in DOMAIN l.v |-> LuaToJson(l.v[i])])

\* lua_vm.to_value(<json value>): the Lua value rebuilt from a serialized one.
RECURSIVE JsonToLua(_)
JsonToLua(j) ==
    CASE j.jt = "null" -> LNull
      [] j.jt = "string" -> LStr(j.v)
      [] j.jt = "boolean" -> LBool(j.v)
      [] j.jt = "number" -> LNum(j.v)
      [] j.jt = "object" -> LTable([f \in DOMAIN j.v |-> JsonToLua(j.v[f])])
      [] j.jt = "array" -> LArr([i \in DOMAIN j.v |-> JsonToLua(j.v[i])])

(***************************************************************************)
(* Answer and Question                                                     *)
(***************************************************************************)
Text(t) == [kind |-> "Text", text |-> t]
Options(sel) == [kind |-> "Options", selected |-> sel]

Simple(prompt, default) == [type |-> "Simple", prompt |-> prompt, default |-> default]
Multiline(prompt, default) == [type |-> "Multiline", prompt |-> prompt, default |-> default]
Select(prompt, default, options, multiple) ==
    [type |-> "Select", prompt |-> prompt, default |-> default,
     options |-> options, multiple |-> multiple]

\* Answer::to_lua
to_lua(answer) ==
    IF answer.kind = "Text"
    THEN LTable([type |-> LStr("text"), text |-> LStr(answer.text)])
    ELSE LTable([type |-> LStr("options"),
                 selected |-> LArr([i \in DOMAIN answer.selected |-> LStr(answer.selected[i])])])

(***************************************************************************)
(* ScriptState and its decoding from the script's return values            *)
(***************************************************************************)
Asking(id, question) == [tag |-> "Asking", id |-> id, question |-> question]
Done(result) == [tag |-> "Done", result |-> result]

\* Result<Result<_, String>, Error>
HardErr(e) == [k |-> "Err", err |-> e]
ScriptErr(msg) == [k |-> "ScriptErr", msg |-> msg]
Okay(x) == [k |-> "Ok", v |-> x]

\* Table::get: an absent key reads as nil.
TGet(l, key) == IF l.lt = "table" /\ key \in DOMAIN l.v THEN l.v[key] ELSE Nil
\* Conversion of a Lua value to a Rust String (numbers are coerced).
IsStringy(l) == l.lt \in {"string", "number"}
AsString(l) == IF l.lt = "number" THEN ToString(l.v) ELSE l.v
\* Conversion of a Lua value to Vec<String>: the sequence part of a table.
IsStringVec(l) ==
    \/ l.lt = "table"
    \/ l.lt = "array" /\ \A i \in DOMAIN l.v : IsStringy(l.v[i])
AsStringVec(l) ==
    IF l.lt = "array" THEN [i \in DOMAIN l.v |-> AsString(l.v[i])] ELSE <<>>
\* Vec::contains
Contains(seq, x) == \E i \in DOMAIN seq : seq[i] = x

\* Mutant of from_lua_select: a `multiple` that is no boolean reads as false.
FromLuaSelectLenient(id, question_table, question_body, suggested_answer) ==
    LET multiple == TGet(question_table, "multiple")
        options == TGet(question_table, "options")
    IN  IF ~IsStringVec(options)
        THEN HardErr("NoOptionsInQuestionData")
        ELSE IF suggested_answer.some /\ ~Contains(AsStringVec(options), suggested_answer.v)
        THEN HardErr("DefaultNotInOptions")
        ELSE Okay(Asking(id, Select(question_body, suggested_answer, AsStringVec(options),
                                    IF multiple.lt = "boolean" THEN multiple.v ELSE FALSE)))

\* The "select" arm of ScriptState::from_lua.
from_lua_select(id, question_table, question_body, suggested_answer) ==
    LET multiple == TGet(question_table, "multiple")
        options == TGet(question_table, "options")
    IN  IF multiple.lt \notin {"nil", "boolean"}
        THEN HardErr("InvalidMultipleProperty")
        ELSE IF ~IsStringVec(options)
        THEN HardErr("NoOptionsInQuestionData")
        ELSE IF suggested_answer.some /\ ~Contains(AsStringVec(options), suggested_answer.v)
        THEN HardErr("DefaultNotInOptions")
        ELSE Okay(Asking(id, Select(question_body, suggested_answer, AsStringVec(options),
                                    IF multiple.lt = "nil" THEN FALSE ELSE multiple.v)))

\* The "question" arm of ScriptState::from_lua.
from_lua_question(props) ==
    IF props.lt \notin {"table", "array"} THEN HardErr("NonTableQuestion")
    ELSE IF ~IsStringy(TGet(props, "id")) THEN HardErr("NoIdInQuestionData")
    ELSE IF ~IsStringy(TGet(props, "type")) THEN HardErr("NoTypeInQuestionData")
    ELSE IF ~IsStringy(TGet(props, "text")) THEN HardErr("NoBodyInQuestionData")
    ELSE
        LET id == AsString(TGet(props, "id"))
            question_type == AsString(TGet(props, "type"))
            question_body == AsString(TGet(props, "text"))
            suggested_answer ==
                IF IsStringy(TGet(props, "default"))
                THEN Some(AsString(TGet(props, "default"))) ELSE None
        IN  CASE question_type = "simple" ->
                    Okay(Asking(id, Simple(question_body, suggested_answer)))
              [] question_type = "multiline" ->
                    Okay(Asking(id, Multiline(question_body, suggested_answer)))
              [] question_type = "select" ->
                    from_lua_select(id, props, question_body, suggested_answer)
              [] OTHER -> HardErr("InvalidQuestionType")

\* ScriptState::from_lua
from_lua(state, props) ==
    CASE state = "question" -> from_lua_question(props)
      [] state = "error" ->
            IF props.lt = "string" THEN ScriptErr(props.v)
            ELSE HardErr("NonStringErrorMessage")
      [] state = "done" -> Okay(Done(LuaToJson(props)))
      [] OTHER -> HardErr("InvalidState")

(***************************************************************************)
(* Driver scripts.  A script is the global Lua function `Main`; the engine *)
(* only sees what it returns.  RunScript gives, for each modelled script,  *)
(* either a raised Lua error or the returned table {state, props, inner}.  *)
(***************************************************************************)
Raise == [raised |-> TRUE]
Return(state, props, inner) == [raised |-> FALSE, table |-> <<LStr(state), props, inner>>]

\* The texts a caller types in, and the options a caller selects from.
Texts == {"Alice", "25"}
OptionPool == {"Indian", "Italian", "Mild", "Medium"}

\* Lua's tonumber() on the modelled texts.
IsNumber(t) == t = "25"
ToNumber(t) == 25

Stage(inner) == IF inner.lt = "table" THEN TGet(inner, "stage").v ELSE "start"
Selected(answer) == AsStringVec(TGet(answer, "selected"))
\* Lua raises when a script concatenates or indexes a field the answer table
\* does not have: a script reading answer.text needs a text answer, one reading
\* answer.selected[1] an options answer.
Readable(stage, textStages, answer) ==
    \/ stage = "start"
    \/ stage \in textStages /\ TGet(answer, "type") = LStr("text")
    \/ stage \notin textStages /\ TGet(answer, "type") = LStr("options")

\* The form of tests/basic.rs: name, age, favourite cuisine and, for Indian
\* food only, the tolerated levels of spice.
BasicMain(inner, answer, params) ==
    LET stage == Stage(inner) IN
    CASE ~Readable(stage, {"name", "age"}, answer) -> Raise
      [] stage = "start" ->
            Return("question",
                   LTable([id |-> LStr("name"), type |-> LStr("simple"),
                           text |-> LStr("What is your name, user "
                                         \o ToString(TGet(params, "id").v) \o "?")]),
                   LTable([stage |-> LStr("name")]))
      [] stage = "name" ->
            Return("question",
                   LTable([id |-> LStr("age"), type |-> LStr("simple"),
                           text |-> LStr("How old are you, " \o TGet(answer, "text").v \o "?"),
                           default |-> LStr("30")]),
                   LTable([stage |-> LStr("age"), name |-> TGet(answer, "text")]))
      [] stage = "age" ->
            IF ~IsNumber(TGet(answer, "text").v)
            THEN Return("error", LStr("Please enter a valid number."), Nil)
            ELSE Return("question",
                        LTable([id |-> LStr("cuisine"), type |-> LStr("select"),
                                text |-> LStr("What is your favourite type of cuisine?"),
                                options |-> LArr(<<LStr("Indian"), LStr("Korean"), LStr("Italian")>>),
                                multiple |-> LBool(FALSE)]),
                        LTable([stage |-> LStr("cuisine"), name |-> TGet(inner, "name"),
                                age |-> LNum(ToNumber(TGet(answer, "text").v))]))
      [] stage = "cuisine" ->
            LET sel == Selected(answer)
                cuisine == IF Len(sel) > 0 THEN LStr(sel[1]) ELSE Nil
            IN  IF cuisine = LStr("Indian")
                THEN Return("question",
                            LTable([id |-> LStr("spice"), type |-> LStr("select"),
                                    text |-> LStr("What levels of spice can you tolerate?"),
                                    options |-> LArr(<<LStr("Mild"), LStr("Medium")>>),
                                    multiple |-> LBool(TRUE)]),
                            LTable([stage |-> LStr("spice"), name |-> TGet(inner, "name"),
                                    age |-> TGet(inner, "age"), cuisine |-> cuisine]))
                ELSE Return("done",
                            LTable([name |-> TGet(inner, "name"), age |-> TGet(inner, "age"),
                                    favourite_cuisine |-> cuisine]),
                            Nil)
      [] OTHER ->
            Return("done",
                   LTable([name |-> TGet(inner, "name"), age |-> TGet(inner, "age"),
                           favourite_cuisine |-> TGet(inner, "cuisine"),
                           spice_levels |-> TGet(answer, "selected")]),
                   Nil)

\* A script that gives one id to two different questions (the case the doc
\* comment of ScriptState::Asking::id warns about) and asks a multiline question.
ReuseMain(inner, answer, params) ==
    LET stage == Stage(inner) IN
    CASE ~Readable(stage, {"one", "three"}, answer) -> Raise
      [] stage = "start" ->
            Return("question",
                   LTable([id |-> LStr("q"), type |-> LStr("multiline"),
                           text |-> LStr("Describe your meal.")]),
                   LTable([stage |-> LStr("one")]))
      [] stage = "one" ->
            Return("question",
                   LTable([id |-> LStr("q"), type |-> LStr("select"),
                           text |-> LStr("How hot was it?"),
                           options |-> LArr(<<LStr("Mild"), LStr("Medium")>>),
                           multiple |-> LBool(TRUE), default |-> LStr("Mild")]),
                   LTable([stage |-> LStr("two"), meal |-> TGet(answer, "text")]))
      [] stage = "two" ->
            IF Len(Selected(answer)) = 0
            THEN Return("question",
                        LTable([id |-> LStr("why"), type |-> LStr("simple"),
                                text |-> LStr("Why no answer?")]),
                        LTable([stage |-> LStr("three"), meal |-> TGet(inner, "meal")]))
            ELSE Return("done",
                        LTable([meal |-> TGet(inner, "meal"), heat |-> TGet(answer, "selected")]),
                        Nil)
      [] OTHER ->
            IF IsNumber(TGet(answer, "text").v)
            THEN Return("error", LStr("Please use words."), Nil)
            ELSE Return("done",
                        LTable([meal |-> TGet(inner, "meal"), why |-> TGet(answer, "text")]),
                        Nil)

\* A script that calls error() for an answer the engine lets through: it raises
\* when two levels are selected, and rejects an empty selection.
FragileMain(inner, answer, params) ==
    LET stage == Stage(inner) IN
    CASE ~Readable(stage, {"name"}, answer) -> Raise
      [] stage = "start" ->
            Return("question",
                   LTable([id |-> LStr("heat"), type |-> LStr("select"),
                           text |-> LStr("How hot?"),
                           options |-> LArr(<<LStr("Mild"), LStr("Medium")>>),
                           multiple |-> LBool(TRUE)]),
                   LTable([stage |-> LStr("heat")]))
      [] stage = "heat" ->
            CASE Len(Selected(answer)) = 0 ->
                    Return("error", LStr("Pick at least one."), Nil)
              [] Len(Selected(answer)) = 1 ->
                    Return("question",
                           LTable([id |-> LStr("name"), type |-> LStr("simple"),
                                   text |-> LStr("What is your name?")]),
                           LTable([stage |-> LStr("name"),
                                   heat |-> LStr(Selected(answer)[1])]))
              [] OTHER -> Raise
      [] OTHER ->
            Return("done",
                   LTable([heat |-> TGet(inner, "heat"), name |-> TGet(answer, "text")]),
                   Nil)

\* A script whose first poll is an error, and one whose first poll is done.
RefuseMain(inner, answer, params) == Return("error", LStr("Not today."), Nil)
EmptyMain(inner, answer, params) ==
    Return("done", LTable([user |-> TGet(params, "id")]), Nil)

\* A script whose second poll is what the answer to its first question makes it:
\* the selection picks a well-formed question, a soft error, or one of the
\* outputs from_lua and call_driver_fn refuse.  The well-formed path asks for a
\* note and is then done.
SloppyMain(inner, answer, params) ==
    LET stage == Stage(inner)
        picked == Selected(answer)
        Ask(table) == Return("question", table, LTable([stage |-> LStr("broken")]))
    IN
    CASE ~Readable(stage, {"note"}, answer) -> Raise
      [] stage = "start" ->
            Return("question",
                   LTable([id |-> LStr("fault"), type |-> LStr("select"),
                           text |-> LStr("Which fault?"),
                           options |-> LArr(<<LStr("Indian"), LStr("Italian"),
                                              LStr("Mild"), LStr("Medium")>>),
                           multiple |-> LBool(TRUE)]),
                   LTable([stage |-> LStr("fault")]))
      [] stage = "fault" ->
            CASE picked = <<>> -> Return("finished", Nil, Nil)
              [] picked = <<"Indian">> -> Ask(LStr("What now?"))
              [] picked = <<"Italian">> ->
                    Ask(LTable([type |-> LStr("simple"), text |-> LStr("What now?")]))
              [] picked = <<"Mild">> ->
                    Ask(LTable([id |-> LStr("note"), text |-> LStr("What now?")]))
              [] picked = <<"Medium">> ->
                    Ask(LTable([id |-> LStr("note"), type |-> LStr("simple")]))
              [] picked = <<"Indian", "Italian">> ->
                    Ask(LTable([id |-> LStr("note"), type |-> LStr("select"),
                                text |-> LStr("What now?")]))
              [] picked = <<"Indian", "Mild">> ->
                    Ask(LTable([id |-> LStr("note"), type |-> LStr("checkbox"),
                                text |-> LStr("What now?")]))
              [] picked = <<"Indian", "Medium">> ->
                    Ask(LTable([id |-> LStr("note"), type |-> LStr("select"),
                                text |-> LStr("What now?"),
                                options |-> LArr(<<LStr("Mild"), LStr("Medium")>>),
                                default |-> LStr("Hot")]))
              [] picked = <<"Italian", "Indian">> ->
                    Return("error", LTable([message |-> LStr("No.")]), Nil)
              [] picked = <<"Italian", "Mild">> ->
                    [raised |-> FALSE, table |-> <<LBool(TRUE), Nil, Nil>>]
              [] picked = <<"Italian", "Medium">> ->
                    Ask(LTable([id |-> LStr("note"), type |-> LStr("select"),
                                text |-> LStr("What now?"),
                                options |-> LArr(<<LStr("Mild"), LStr("Medium")>>),
                                multiple |-> LStr("yes")]))
              [] picked = <<"Mild", "Medium">> ->
                    Return("error", LStr("Not those two."), Nil)
              [] OTHER ->
                    Return("question",
                           LTable([id |-> LStr("note"), type |-> LStr("simple"),
                                   text |-> LStr("Anything to add?")]),
                           LTable([stage |-> LStr("note"),
                                   fault |-> TGet(answer, "selected")]))
      [] OTHER ->
            Return("done",
                   LTable([fault |-> TGet(inner, "fault"), note |-> TGet(answer, "text")]),
                   Nil)

\* The scripts that make a form, and all scripts.
Scripts == {"basic", "reuse", "fragile"}
AllScripts == Scripts \cup {"refuse", "empty"}

\* driver_function.call((inner_state, answer, parameters))
RunScript(script, inner, answer, params) ==
    CASE script = "basic" -> BasicMain(inner, answer, params)
      [] script = "reuse" -> ReuseMain(inner, answer, params)
      [] script = "fragile" -> FragileMain(inner, answer, params)
      [] script = "refuse" -> RefuseMain(inner, answer, params)
      [] script = "empty" -> EmptyMain(inner, answer, params)
      [] script = "sloppy" -> SloppyMain(inner, answer, params)

\* The parameters of tests/basic.rs: { id = 37 }.
Parameters == LTable([id |-> LNum(37)])

(***************************************************************************)
(* Form::call_driver_fn and Form::get_script_state                         *)
(***************************************************************************)
\* call_driver_fn, lines 313-327: what the call of the script gave, decoded.
ReadResult(raw) ==
    IF raw.raised THEN HardErr("RunDriverFailed")
    ELSE IF ~IsStringy(raw.table[1]) THEN HardErr("InvalidResult")
    ELSE LET script_state == from_lua(AsString(raw.table[1]), raw.table[2])
         IN  IF script_state.k = "Ok"
             THEN Okay(<<script_state.v, LuaToJson(raw.table[3])>>)
             ELSE script_state

\* inner_state_and_answer is None or Some(<<inner_state, answer>>).
call_driver_fn(script, parameters, inner_state_and_answer) ==
    LET inner_state == IF inner_state_and_answer.some
                       THEN JsonToLua(inner_state_and_answer.v[1]) ELSE Nil
        answer == IF inner_state_and_answer.some
                  THEN to_lua(inner_state_and_answer.v[2]) ELSE Nil
    IN  ReadResult(RunScript(script, inner_state, answer, parameters))

get_script_state(script, parameters, inner_state, answer) ==
    call_driver_fn(script, parameters, Some(<<inner_state, answer>>))

(***************************************************************************)
(* The Form.  A form value is the record                                   *)
(*   [cached_answers, script_states, next_state]                           *)
(* cached_answers : a function from question ids to answers (HashMap)      *)
(* script_states  : a sequence of <<id, question, inner state>>            *)
(* next_state     : <<ScriptState, inner state>>                           *)
(***************************************************************************)
Form(cached, states, next) ==
    [cached_answers |-> cached, script_states |-> states, next_state |-> next]

\* FormPoll
PollQuestion(question, answer) == [poll |-> "Question", question |-> question, answer |-> answer]
PollError(msg) == [poll |-> "Error", msg |-> msg]
PollDone == [poll |-> "Done"]

InvalidAnswerType(expected) == [k |-> "Err", err |-> "InvalidAnswerType", expected |-> expected]

\* HashMap::new, HashMap::get, HashMap::insert
EmptyMap == <<>>
Lookup(map, key) == IF key \in DOMAIN map THEN Some(map[key]) ELSE None
\* Mutant of Insert: keeps the value a key already has (entry().or_insert()).
InsertIfAbsent(map, key, value) ==
    [x \in DOMAIN map \cup {key} |-> IF x \in DOMAIN map THEN map[x] ELSE value]
Insert(map, key, value) ==
    [x \in DOMAIN map \cup {key} |-> IF x = key THEN value ELSE map[x]]

\* Vec::get with a 0-based index, Vec::truncate, Vec::push
Get(vec, idx) == IF idx < Len(vec) THEN Some(vec[idx + 1]) ELSE None
\* Mutant of Truncate: keeps one entry too few (truncate(question_idx)).
TruncateOffByOne(vec, len) == IF len - 1 < Len(vec) THEN SubSeq(vec, 1, len - 1) ELSE vec
\* Mutant of Truncate: the truncation is forgotten.
TruncateNothing(vec, len) == vec
Truncate(vec, len) == IF len < Len(vec) THEN SubSeq(vec, 1, len) ELSE vec
Push(vec, x) == Append(vec, x)

\* Mutant of new_with_lua_params: the first state is not looked at.
NewWithAnyFirstState(script, parameters) ==
    LET first_state == call_driver_fn(script, parameters, None)
    IN  CASE first_state.k = "Err" -> first_state
          [] first_state.k = "ScriptErr" -> HardErr("FirstPollFailed")
          [] OTHER -> Okay(Form(EmptyMap, <<>>, first_state.v))

\* Form::new_with_lua_params, after the script is loaded and Main resolved.
new_with_lua_params(script, parameters) ==
    LET first_state == call_driver_fn(script, parameters, None)
    IN  CASE first_state.k = "Err" -> first_state
          [] first_state.k = "ScriptErr" -> HardErr("FirstPollFailed")
          [] first_state.v[1].tag = "Asking" -> Okay(Form(EmptyMap, <<>>, first_state.v))
          [] OTHER -> HardErr("FirstPollDone")

\* Mutant of Locate: past the end of a completed form, the last entry is answered
\* again instead of short-circuiting.
LocateLastWhenDone(form, question_idx) ==
    LET entry == Get(form.script_states, question_idx)
        last == Get(form.script_states, Len(form.script_states) - 1)
    IN  IF entry.some
        THEN [short |-> FALSE, question_id |-> entry.v[1], question |-> entry.v[2],
              inner_state |-> entry.v[3], should_clobber |-> TRUE]
        ELSE IF form.next_state[1].tag = "Asking"
        THEN [short |-> FALSE, question_id |-> form.next_state[1].id,
              question |-> form.next_state[1].question,
              inner_state |-> form.next_state[2], should_clobber |-> FALSE]
        ELSE [short |-> FALSE, question_id |-> last.v[1], question |-> last.v[2],
              inner_state |-> last.v[3], should_clobber |-> TRUE]

\* Mutant of Locate: an index past the end is taken for a completed form.
LocatePastEndIsDone(form, question_idx) ==
    LET entry == Get(form.script_states, question_idx)
    IN  IF entry.some
        THEN [short |-> FALSE, question_id |-> entry.v[1], question |-> entry.v[2],
              inner_state |-> entry.v[3], should_clobber |-> TRUE]
        ELSE IF form.next_state[1].tag = "Asking" /\ question_idx = Len(form.script_states)
        THEN [short |-> FALSE, question_id |-> form.next_state[1].id,
              question |-> form.next_state[1].question,
              inner_state |-> form.next_state[2], should_clobber |-> FALSE]
        ELSE [short |-> TRUE]

\* Mutant of Locate: an earlier question is answered from the snapshot made after
\* it was answered (the one stored with the next step).
LocateLaterSnapshot(form, question_idx) ==
    LET entry == Get(form.script_states, question_idx)
        later == Get(form.script_states, question_idx + 1)
    IN  IF entry.some
        THEN [short |-> FALSE, question_id |-> entry.v[1], question |-> entry.v[2],
              inner_state |-> IF later.some THEN later.v[3] ELSE form.next_state[2],
              should_clobber |-> TRUE]
        ELSE IF form.next_state[1].tag = "Asking"
        THEN [short |-> FALSE, question_id |-> form.next_state[1].id,
              question |-> form.next_state[1].question,
              inner_state |-> form.next_state[2], should_clobber |-> FALSE]
        ELSE [short |-> TRUE]

\* progress_with_answer, lines 167-184: the step being answered.
Locate(form, question_idx) ==
    LET entry == Get(form.script_states, question_idx)
    IN  IF entry.some
        THEN [short |-> FALSE, question_id |-> entry.v[1], question |-> entry.v[2],
              inner_state |-> entry.v[3], should_clobber |-> TRUE]
        ELSE IF form.next_state[1].tag = "Asking"
        THEN [short |-> FALSE, question_id |-> form.next_state[1].id,
              question |-> form.next_state[1].question,
              inner_state |-> form.next_state[2], should_clobber |-> FALSE]
        ELSE [short |-> TRUE]

\* Mutant of CheckAnswer: a single-choice question wants exactly one option.
CheckAnswerWantsOne(question, answer) ==
    IF question.type \in {"Simple", "Multiline"}
    THEN IF answer.kind /= "Text"
         THEN Some("text for simple/multiline question") ELSE None
    ELSE IF answer.kind = "Options"
         THEN IF ~question.multiple /\ Len(answer.selected) /= 1
              THEN Some("single option for non-multiple select question")
              ELSE IF ~(\A i \in DOMAIN answer.selected :
                            Contains(question.options, answer.selected[i]))
              THEN Some("all options to be valid")
              ELSE None
         ELSE Some("options for select question")

\* Mutant of CheckAnswer: a text given to a select question is let through.
CheckAnswerTextForSelect(question, answer) ==
    IF question.type \in {"Simple", "Multiline"}
    THEN IF answer.kind /= "Text"
         THEN Some("text for simple/multiline question") ELSE None
    ELSE IF answer.kind = "Options"
         THEN IF ~question.multiple /\ Len(answer.selected) > 1
              THEN Some("single option for non-multiple select question")
              ELSE IF ~(\A i \in DOMAIN answer.selected :
                            Contains(question.options, answer.selected[i]))
              THEN Some("all options to be valid")
              ELSE None
         ELSE None

\* Mutant of CheckAnswer: only the kind of the answer is checked.
CheckAnswerKindOnly(question, answer) ==
    IF question.type \in {"Simple", "Multiline"}
    THEN IF answer.kind /= "Text"
         THEN Some("text for simple/multiline question") ELSE None
    ELSE IF answer.kind = "Options" THEN None ELSE Some("options for select question")

\* progress_with_answer, lines 186-215: None when the answer fits the question,
\* otherwise the `expected` text of the InvalidAnswerType error.
CheckAnswer(question, answer) ==
    IF question.type \in {"Simple", "Multiline"}
    THEN IF answer.kind /= "Text"
         THEN Some("text for simple/multiline question") ELSE None
    ELSE IF answer.kind = "Options"
         THEN IF ~question.multiple /\ Len(answer.selected) > 1
              THEN Some("single option for non-multiple select question")
              ELSE IF ~(\A i \in DOMAIN answer.selected :
                            Contains(question.options, answer.selected[i]))
              THEN Some("all options to be valid")
              ELSE None
         ELSE Some("options for select question")

\* Mutant of Clobber: the answers of the discarded entries are dropped with them.
ClobberDropsAnswers(form, cached, question_idx, new) ==
    LET kept == Truncate(form.script_states, question_idx + 1)
    IN  Form([id \in {kept[k][1] : k \in DOMAIN kept} |-> cached[id]], kept, new)

\* Mutant of Clobber: next_state is not replaced.
ClobberKeepsNextState(form, cached, question_idx, new) ==
    Form(cached, Truncate(form.script_states, question_idx + 1), form.next_state)

\* progress_with_answer, lines 224-230: an earlier answer was changed.
Clobber(form, cached, question_idx, new) ==
    Form(cached, Truncate(form.script_states, question_idx + 1), new)

\* Mutant of Advance: the entry gets the inner state the script just returned.
AdvanceWithNewInnerState(form, cached, new) ==
    Form(cached,
         Push(form.script_states,
              <<form.next_state[1].id, form.next_state[1].question, new[2]>>),
         new)

\* progress_with_answer, lines 231-242: the question in next_state was answered.
Advance(form, cached, new) ==
    Form(cached,
         Push(form.script_states,
              <<form.next_state[1].id, form.next_state[1].question, form.next_state[2]>>),
         new)

\* progress_with_answer, lines 220-242: the script accepted the answer.
Commit(form, target, question_idx, answer, new) ==
    LET cached == Insert(form.cached_answers, target.question_id, answer)
    IN  IF target.should_clobber
        THEN Clobber(form, cached, question_idx, new)
        ELSE Advance(form, cached, new)

\* Mutant of Report: the question is returned without its cached answer.
ReportWithoutAnswer(form) ==
    IF form.next_state[1].tag = "Asking"
    THEN Okay(PollQuestion(form.next_state[1].question, None))
    ELSE Okay(PollDone)

\* progress_with_answer, lines 244-251: the poll for what next_state now holds.
Report(form) ==
    IF form.next_state[1].tag = "Asking"
    THEN Okay(PollQuestion(form.next_state[1].question,
                           Lookup(form.cached_answers, form.next_state[1].id)))
    ELSE Okay(PollDone)

\* Mutant of Rejected: the rejected answer is cached all the same.
RejectedButCached(form, target, answer) ==
    Form(Insert(form.cached_answers, target.question_id, answer),
         form.script_states, form.next_state)

\* progress_with_answer, lines 253-256: the script rejected the answer; the form
\* is left as it was.
Rejected(form, target, answer) == form

\* Mutant of Failed: the answer was cached before the script was called.
FailedAfterInsert(form, target, answer) ==
    Form([x \in DOMAIN form.cached_answers \cup {target.question_id} |->
             IF x = target.question_id THEN answer ELSE form.cached_answers[x]],
         form.script_states, form.next_state)

\* progress_with_answer, line 218: the `?` on the call of the script returns the
\* hard error before anything was assigned.
Failed(form, target, answer) == form

\* progress_with_answer, lines 218-257: the match on what the script returned.
Settle(form, target, question_idx, answer, next_state) ==
    CASE next_state.k = "Err" ->
            [form |-> Failed(form, target, answer),
             ret |-> next_state, polled |-> Some(next_state)]
      [] next_state.k = "ScriptErr" ->
            [form |-> Rejected(form, target, answer),
             ret |-> Okay(PollError(next_state.msg)), polled |-> Some(next_state)]
      [] OTHER ->
            LET after == Commit(form, target, question_idx, answer, next_state.v)
            IN  [form |-> after, ret |-> Report(after), polled |-> Some(next_state)]

\* Mutant of progress_with_answer: the script is polled before the answer is checked.
ProgressPollsFirst(form, script, parameters, question_idx, answer) ==
    LET target == Locate(form, question_idx) IN
    IF target.short THEN [form |-> form, ret |-> Okay(PollDone), polled |-> None]
    ELSE LET bad == CheckAnswer(target.question, answer) IN
    IF bad.some
    THEN [form |-> form, ret |-> InvalidAnswerType(bad.v),
          polled |-> Some(get_script_state(script, parameters, target.inner_state, answer))]
    ELSE Settle(form, target, question_idx, answer,
                get_script_state(script, parameters, target.inner_state, answer))

\* Form::progress_with_answer.  The result holds the form after the call, the
\* value returned, and `polled`: the outcome of the call of the driver script
\* (None when the script was not called).
progress_with_answer(form, script, parameters, question_idx, answer) ==
    LET target == Locate(form, question_idx) IN
    IF target.short THEN [form |-> form, ret |-> Okay(PollDone), polled |-> None]
    ELSE LET bad == CheckAnswer(target.question, answer) IN
    IF bad.some THEN [form |-> form, ret |-> InvalidAnswerType(bad.v), polled |-> None]
    ELSE Settle(form, target, question_idx, answer,
                get_script_state(script, parameters, target.inner_state, answer))

\* Mutant of into_done: the inner state is returned instead of the result.
IntoDoneOfInnerState(form) ==
    IF form.next_state[1].tag = "Done"
    THEN Okay(form.next_state[2])
    ELSE [k |-> "Err", form |-> form]

\* Form::into_done: Ok(obj) consumes the form, Err(self) hands it back.
into_done(form) ==
    IF form.next_state[1].tag = "Done"
    THEN Okay(form.next_state[1].result)
    ELSE [k |-> "Err", form |-> form]

\* Mutant of next_question: the cached answer is not looked up.
NextQuestionWithoutAnswer(form) ==
    IF form.next_state[1].tag = "Asking"
    THEN Some(<<form.next_state[1].question, None>>)
    ELSE None

\* Form::next_question
next_question(form) ==
    IF form.next_state[1].tag = "Asking"
    THEN Some(<<form.next_state[1].question,
                Lookup(form.cached_answers, form.next_state[1].id)>>)
    ELSE None

\* Mutant of get_question: the index is taken to count from one.
GetQuestionFromOne(form, idx) ==
    IF idx >= 1 /\ idx <= Len(form.script_states)
    THEN Some(<<form.script_states[idx][2],
                Lookup(form.cached_answers, form.script_states[idx][1])>>)
    ELSE None

\* Form::get_question
get_question(form, idx) ==
    LET entry == Get(form.script_states, idx)
    IN  IF entry.some
        THEN Some(<<entry.v[2], Lookup(form.cached_answers, entry.v[1])>>)
        ELSE None

\* Mutant of first_question: the check of the form's progress is missing; only
\* the unreachable!() of the match panics.
FirstQuestionUnchecked(form) ==
    IF form.next_state[1].tag = "Asking"
    THEN [panic |-> FALSE, question |-> form.next_state[1].question]
    ELSE [panic |-> TRUE]

\* Form::first_question: the question, or a panic.
first_question(form) ==
    IF Len(form.script_states) /= 0 \/ DOMAIN form.cached_answers /= {}
    THEN [panic |-> TRUE]
    ELSE [panic |-> FALSE, question |-> form.next_state[1].question]

(***************************************************************************)
(* The state machine: one form and its caller.                             *)
(***************************************************************************)
VARIABLES
    cached_answers,   \* Form::cached_answers
    script_states,    \* Form::script_states
    next_state,       \* Form::next_state
    driver_function,  \* Form::driver_function: the script driving this form
    live,             \* whether the form still exists (not consumed, no panic)
    ret,              \* the value returned by the last call
    call,             \* the call that just returned (its arguments, the form before
                      \* it and, for progress_with_answer, what the script returned
                      \* and was passed), or "none" when the caller is about to call
    advances,         \* committed answers to the question in next_state
    rewinds,          \* committed answers to an earlier question
    clobbers,         \* rewinds that removed entries of script_states
    discarded,        \* entries of script_states a rewind was to remove
    calls,            \* committed progress calls
    answered_as,      \* for each id, the question its cached answer was accepted for
    accepted,         \* for each id, the answer the script accepted for it last
    given,            \* for each entry of script_states, the answer accepted for it last
    core              \* the loop of the command line front end: its position, its
                      \* question_idx and reasking, the poll it looks at, and whether
                      \* the last answer was to a question asked again

formVars == <<cached_answers, script_states, next_state>>
counters == <<advances, rewinds, clobbers, discarded, calls>>
vars == <<cached_answers, script_states, next_state, driver_function, live, ret, call,
          advances, rewinds, clobbers, discarded, calls, answered_as, accepted, given, core>>

TheForm == Form(cached_answers, script_states, next_state)

\* The inputs of the caller.
Indices == 0 .. MaxIdx
Selections == UNION {[1 .. n -> OptionPool] : n \in 0 .. MaxSel}
Answers == {Text(t) : t \in Texts} \cup {Options(sel) : sel \in Selections}

Init ==
    /\ driver_function \in Scripts
    /\ LET made == new_with_lua_params(driver_function, Parameters)
       IN  /\ made.k = "Ok"
           /\ cached_answers = made.v.cached_answers
           /\ script_states = made.v.script_states
           /\ next_state = made.v.next_state
    /\ live = TRUE
    /\ ret = [k |-> "Ok"]
    /\ call = [op |-> "new"]
    /\ advances = 0 /\ rewinds = 0 /\ clobbers = 0 /\ discarded = 0 /\ calls = 0
    /\ answered_as = EmptyMap
    /\ accepted = EmptyMap
    /\ given = <<>>
    /\ core = [pc |-> "off"]

\* Form::new with any script: when it fails there is no form, the caller
\* holds the error and can call nothing.
NoForm == Form(EmptyMap, <<>>, <<>>)
InitNew ==
    /\ driver_function \in AllScripts
    /\ LET made == new_with_lua_params(driver_function, Parameters)
           form == IF made.k = "Ok" THEN made.v ELSE NoForm
       IN  /\ cached_answers = form.cached_answers
           /\ script_states = form.script_states
           /\ next_state = form.next_state
           /\ live = (made.k = "Ok")
           /\ ret = IF made.k = "Ok" THEN [k |-> "Ok"] ELSE made
    /\ call = [op |-> "new"]
    /\ advances = 0 /\ rewinds = 0 /\ clobbers = 0 /\ discarded = 0 /\ calls = 0
    /\ answered_as = EmptyMap
    /\ accepted = EmptyMap
    /\ given = <<>>
    /\ core = [pc |-> "off"]

\* The question progress_with_answer(question_idx, _) is an answer to: the entry
\* of script_states at question_idx if there is one, else the one in next_state.
IsRewind(form, question_idx) == question_idx < Len(form.script_states)
AnsweredId(form, question_idx) ==
    IF IsRewind(form, question_idx)
    THEN form.script_states[question_idx + 1][1] ELSE form.next_state[1].id
AnsweredQuestion(form, question_idx) ==
    IF IsRewind(form, question_idx)
    THEN form.script_states[question_idx + 1][2] ELSE form.next_state[1].question
AnsweredSnapshot(form, question_idx) ==
    IF IsRewind(form, question_idx)
    THEN form.script_states[question_idx + 1][3] ELSE form.next_state[2]

\* The effect of form.progress_with_answer(question_idx, answer) on the form.
DoProgress(question_idx, answer) ==
    \E r \in {progress_with_answer(TheForm, driver_function, Parameters, question_idx, answer)} :
        /\ cached_answers' = r.form.cached_answers
        /\ script_states' = r.form.script_states
        /\ next_state' = r.form.next_state
        /\ ret' = r.ret
        /\ call' = [op |-> "progress", idx |-> question_idx, answer |-> answer,
                    pre |-> TheForm, polled |-> r.polled,
                    passed |-> IF r.polled.some
                               THEN Some(<<Locate(TheForm, question_idx).inner_state,
                                           answer, Parameters>>)
                               ELSE None]
        /\ answered_as' =
              IF /\ r.polled.some /\ r.polled.v.k = "Ok"
                 /\ (IsRewind(TheForm, question_idx) \/ next_state[1].tag = "Asking")
              THEN [id \in DOMAIN answered_as \cup {AnsweredId(TheForm, question_idx)} |->
                        IF id = AnsweredId(TheForm, question_idx)
                        THEN AnsweredQuestion(TheForm, question_idx)
                        ELSE answered_as[id]]
              ELSE answered_as
        /\ accepted' =
              IF /\ r.polled.some /\ r.polled.v.k = "Ok"
                 /\ (IsRewind(TheForm, question_idx) \/ next_state[1].tag = "Asking")
              THEN [id \in DOMAIN accepted \cup {AnsweredId(TheForm, question_idx)} |->
                        IF id = AnsweredId(TheForm, question_idx)
                        THEN answer ELSE accepted[id]]
              ELSE accepted
        /\ given' =
              IF /\ r.polled.some /\ r.polled.v.k = "Ok"
                 /\ (IsRewind(TheForm, question_idx) \/ next_state[1].tag = "Asking")
              THEN IF IsRewind(TheForm, question_idx)
                   THEN Append(SubSeq(given, 1, question_idx), answer)
                   ELSE Append(given, answer)
              ELSE given
        /\ UNCHANGED <<driver_function, live>>

\* The caller is between two calls.
Idle == live /\ call.op = "none"

Progress ==
    /\ Idle
    /\ \E question_idx \in Indices, answer \in Answers : DoProgress(question_idx, answer)
    /\ UNCHANGED <<counters, core>>

\* Whether the last call committed an answer (the script returned a question or done).
Committed(c) == c.op = "progress" /\ c.polled.some /\ c.polled.v.k = "Ok"

\* progress_with_answer with the bookkeeping of what the caller asked for.
ProgressCounted ==
    /\ Idle
    /\ calls < MaxCalls
    /\ UNCHANGED core
    /\ \E question_idx \in Indices, answer \in Answers :
        /\ DoProgress(question_idx, answer)
        /\ LET n == Len(script_states)
               ok == Committed(call')
               rewind == ok /\ question_idx < n
           IN  /\ calls' = IF ok THEN calls + 1 ELSE calls
               /\ advances' = IF ok /\ ~rewind THEN advances + 1 ELSE advances
               /\ rewinds' = IF rewind THEN rewinds + 1 ELSE rewinds
               /\ clobbers' = IF rewind /\ question_idx + 1 < n THEN clobbers + 1 ELSE clobbers
               /\ discarded' = IF rewind THEN discarded + (n - (question_idx + 1))
                               ELSE discarded

IntoDone ==
    /\ Idle
    /\ ret' = into_done(TheForm)
    /\ live' = (ret'.k = "Err")
    /\ call' = [op |-> "into_done", pre |-> TheForm]
    /\ UNCHANGED <<formVars, driver_function, counters, answered_as, accepted, given, core>>

NextQuestion ==
    /\ Idle
    /\ ret' = next_question(TheForm)
    /\ call' = [op |-> "next_question", pre |-> TheForm]
    /\ UNCHANGED <<formVars, driver_function, live, counters, answered_as, accepted, given, core>>

GetQuestion ==
    /\ Idle
    /\ \E idx \in Indices :
        /\ ret' = get_question(TheForm, idx)
        /\ call' = [op |-> "get_question", idx |-> idx, pre |-> TheForm]
    /\ UNCHANGED <<formVars, driver_function, live, counters, answered_as, accepted, given, core>>

FirstQuestion ==
    /\ Idle
    /\ ret' = first_question(TheForm)
    /\ live' = ~ret'.panic
    /\ call' = [op |-> "first_question", pre |-> TheForm]
    /\ UNCHANGED <<formVars, driver_function, counters, answered_as, accepted, given, core>>

\* The caller of the command line front end: on FormPoll::Error it calls
\* next_question at once, to ask again.
NextQuestionAfterError ==
    /\ live
    /\ call.op = "progress"
    /\ ret.k = "Ok" /\ ret.v.poll = "Error"
    /\ ret' = next_question(TheForm)
    /\ call' = [op |-> "reask", idx |-> call.idx, answer |-> call.answer, pre |-> call.pre]
    /\ UNCHANGED <<formVars, driver_function, live, counters, answered_as, accepted, given, core>>

\* The caller has looked at the returned value and goes on to its next call.
Resume ==
    /\ live
    /\ call.op /= "none"
    /\ call' = [op |-> "none"]
    /\ ret' = [k |-> "None"]
    /\ UNCHANGED <<formVars, driver_function, live, counters, answered_as, accepted, given, core>>

Next ==
    \/ Progress \/ IntoDone \/ NextQuestion \/ GetQuestion \/ FirstQuestion
    \/ NextQuestionAfterError \/ Resume

Spec == Init /\ [][Next]_vars

NextCount ==
    \/ ProgressCounted \/ IntoDone \/ NextQuestion \/ GetQuestion \/ FirstQuestion
    \/ NextQuestionAfterError \/ Resume

\* The same machine, with the calls of progress_with_answer counted.
SpecCount == Init /\ [][NextCount]_vars

\* The same machine, from the construction of a form with any script.
SpecNew == InitNew /\ [][Next]_vars

\* A form driven by the script with malformed outputs.
InitSloppy ==
    /\ driver_function = "sloppy"
    /\ LET made == new_with_lua_params(driver_function, Parameters)
       IN  /\ made.k = "Ok"
           /\ cached_answers = made.v.cached_answers
           /\ script_states = made.v.script_states
           /\ next_state = made.v.next_state
    /\ live = TRUE
    /\ ret = [k |-> "Ok"]
    /\ call = [op |-> "new"]
    /\ advances = 0 /\ rewinds = 0 /\ clobbers = 0 /\ discarded = 0 /\ calls = 0
    /\ answered_as = EmptyMap
    /\ accepted = EmptyMap
    /\ given = <<>>
    /\ core = [pc |-> "off"]

SpecSloppy == InitSloppy /\ [][Next]_vars

(***************************************************************************)
(* The command line front end (birocrat-cli, main.rs: core): it makes a    *)
(* form, shows the first question and then loops over the polls.           *)
(***************************************************************************)
\* Mutant of NextIndex: the index moves on also when a question is asked again.
NextIndexAlways(idx, reasking) == idx + 1

\* main.rs, lines 91-95: the index of the question about to be answered.
NextIndex(idx, reasking) == IF ~reasking THEN idx + 1 ELSE idx

\* What utils::select_multiple can return: some of the options, in their order.
Picks(options) ==
    {[i \in DOMAIN pick |-> options[pick[i]]] :
        pick \in {p \in UNION {[1 .. n -> DOMAIN options] : n \in 0 .. Len(options)} :
                     \A i \in DOMAIN p : i > 1 => p[i - 1] < p[i]}}

\* The texts typed at the prompts.
Typed == Texts \cup {"twenty-five"}

\* The answers the user can give to a question through the prompts.
Inputs(question) ==
    IF question.type \in {"Simple", "Multiline"} THEN {Text(t) : t \in Typed}
    ELSE IF question.multiple THEN {Options(sel) : sel \in Picks(question.options)}
    ELSE {Options(<<question.options[i]>>) : i \in DOMAIN question.options}

InitCli ==
    /\ driver_function \in Scripts
    /\ LET made == new_with_lua_params(driver_function, Parameters)
       IN  /\ made.k = "Ok"
           /\ cached_answers = made.v.cached_answers
           /\ script_states = made.v.script_states
           /\ next_state = made.v.next_state
           /\ core = [pc |-> "loop", question_idx |-> -1, reasking |-> FALSE,
                      poll |-> PollQuestion(first_question(made.v).question, None),
                      again |-> FALSE]
    /\ live = TRUE
    /\ ret = [k |-> "Ok"]
    /\ call = [op |-> "new"]
    /\ advances = 0 /\ rewinds = 0 /\ clobbers = 0 /\ discarded = 0 /\ calls = 0
    /\ answered_as = EmptyMap
    /\ accepted = EmptyMap
    /\ given = <<>>

\* main.rs, lines 90-132: a question is shown and its answer given to the form;
\* a hard error leaves core through the `?`.
CliQuestion ==
    /\ core.pc = "loop"
    /\ core.poll.poll = "Question"
    /\ \E answer \in Inputs(core.poll.question) :
          /\ DoProgress(NextIndex(core.question_idx, core.reasking), answer)
          /\ core' = IF ret'.k = "Ok"
                     THEN [pc |-> "loop",
                           question_idx |-> NextIndex(core.question_idx, core.reasking),
                           reasking |-> FALSE, poll |-> ret'.v, again |-> core.reasking]
                     ELSE [pc |-> "failed",
                           question_idx |-> NextIndex(core.question_idx, core.reasking)]
    /\ UNCHANGED counters

\* main.rs, lines 134-145: the error is shown and the question asked again.
CliError ==
    /\ core.pc = "loop"
    /\ core.poll.poll = "Error"
    /\ ret' = next_question(TheForm)
    /\ call' = [op |-> "reask", idx |-> call.idx, answer |-> call.answer, pre |-> call.pre]
    /\ core' = IF ret'.some
               THEN [core EXCEPT !.poll = PollQuestion(ret'.v[1], ret'.v[2]), !.reasking = TRUE]
               ELSE [pc |-> "panicked", question_idx |-> core.question_idx]
    /\ UNCHANGED <<formVars, driver_function, live, counters, answered_as, accepted, given>>

\* main.rs, lines 146-151: the loop breaks and the result is taken out.
CliDone ==
    /\ core.pc = "loop"
    /\ core.poll.poll = "Done"
    /\ ret' = into_done(TheForm)
    /\ call' = [op |-> "into_done", pre |-> TheForm]
    /\ live' = FALSE
    /\ core' = [pc |-> IF ret'.k = "Ok" THEN "output" ELSE "panicked",
                question_idx |-> core.question_idx]
    /\ UNCHANGED <<formVars, driver_function, counters, answered_as, accepted, given>>

NextCli == CliQuestion \/ CliError \/ CliDone

SpecCli == InitCli /\ [][NextCli]_vars

(***************************************************************************)
(* ScriptState::from_lua on its own: a tag and a payload as a script may    *)
(* return them, then the decoding.                                         *)
(***************************************************************************)
Tags == {"question", "error", "done", "finished"}
\* The values of the properties of a payload (nil: the property is absent).
Ids == <<Nil, LStr("heat")>>
Types == <<Nil, LStr("simple"), LStr("multiline"), LStr("select"), LStr("slider")>>
Bodies == <<Nil, LStr("How hot?")>>
Defaults == <<Nil, LStr("Mild"), LStr("Hot")>>
OptionLists == <<Nil, LArr(<<LStr("Mild"), LStr("Medium")>>)>>
Multiples == <<Nil, LNull, LBool(TRUE), LBool(FALSE), LStr("yes"), LNum(1)>>
Plain == <<Nil, LStr("Please use words.")>>

InitDecode ==
    /\ cached_answers = NoForm.cached_answers
    /\ script_states = NoForm.script_states
    /\ next_state = NoForm.next_state
    /\ driver_function = "basic"
    /\ live = FALSE
    /\ ret = [k |-> "None"]
    /\ \E state \in Tags :
          \/ \E i \in DOMAIN Ids, t \in DOMAIN Types, x \in DOMAIN Bodies, d \in DOMAIN Defaults,
                o \in DOMAIN OptionLists, m \in DOMAIN Multiples :
                call = [op |-> "returned", state |-> state,
                        props |-> LTable([id |-> Ids[i], type |-> Types[t], text |-> Bodies[x],
                                          default |-> Defaults[d], options |-> OptionLists[o],
                                          multiple |-> Multiples[m]])]
          \/ \E p \in DOMAIN Plain :
                call = [op |-> "returned", state |-> state, props |-> Plain[p]]
    /\ advances = 0 /\ rewinds = 0 /\ clobbers = 0 /\ discarded = 0 /\ calls = 0
    /\ answered_as = EmptyMap
    /\ accepted = EmptyMap
    /\ given = <<>>
    /\ core = [pc |-> "off"]

Decode ==
    /\ call.op = "returned"
    /\ ret' = from_lua(call.state, call.props)
    /\ call' = [op |-> "from_lua", state |-> call.state, props |-> call.props]
    /\ UNCHANGED <<formVars, driver_function, live, counters, answered_as, accepted, given, core>>

NextDecode == Decode

SpecDecode == InitDecode /\ [][NextDecode]_vars

(***************************************************************************)
(* The claims.  They are stated over the last call (`call`, `ret`) and the *)
(* form before it (`call.pre`), in the words of the specification:         *)
(* ledger = script_states, answers = cached_answers, pending = next_state. *)
(***************************************************************************)
\* Type compatibility of an answer with a question, as the specification states it.
Compatible(q, a) ==
    \/ q.type \in {"Simple", "Multiline"} /\ a.kind = "Text"
    \/ /\ q.type = "Select"
       /\ a.kind = "Options"
       /\ \A i \in DOMAIN a.selected : \E j \in DOMAIN q.options : q.options[j] = a.selected[i]
       /\ (q.multiple \/ Len(a.selected) <= 1)

\* progress(i, a) on `form` has a question to answer (it is not the Done short-circuit).
HasTarget(form, i) == IsRewind(form, i) \/ form.next_state[1].tag = "Asking"

\* What the script returns for the answer `a` to the question progress(i, a) answers.
ScriptReturn(form, i, a) ==
    RunScript(driver_function, JsonToLua(AnsweredSnapshot(form, i)), to_lua(a), Parameters)
ScriptTag(form, i, a) ==
    IF ScriptReturn(form, i, a).raised THEN "raised" ELSE ScriptReturn(form, i, a).table[1].v
\* The same, decoded: <<ScriptState, snapshot>>.
ScriptOutput(form, i, a) ==
    get_script_state(driver_function, Parameters, AnsweredSnapshot(form, i), a).v

IsProgress == call.op = "progress"
FormUnchanged == TheForm = call.pre
\* The last call was a progress call that returned FormPoll::Question or FormPoll::Done
\* after committing the answer.
Successful ==
    /\ IsProgress
    /\ HasTarget(call.pre, call.idx)
    /\ ret.k = "Ok"
    /\ ret.v.poll \in {"Question", "Done"}

\* C1: a progress call (advance or rewind) whose answer has the right shape and
\* whose script call returns tag "error" returns FormPoll::Error(msg) and leaves
\* ledger, answers and pending as they were.
C1_ScriptErrorChangesNothing ==
    (/\ IsProgress
     /\ HasTarget(call.pre, call.idx)
     /\ Compatible(AnsweredQuestion(call.pre, call.idx), call.answer)
     /\ ScriptTag(call.pre, call.idx, call.answer) = "error")
    => /\ ret = Okay(PollError(ScriptReturn(call.pre, call.idx, call.answer).table[2].v))
       /\ FormUnchanged

\* A rewind with later history, rejected by the script, with an answer other
\* than the cached one.
C1_Witness ==
    /\ IsProgress
    /\ call.idx + 1 < Len(call.pre.script_states)
    /\ ret.k = "Ok" /\ ret.v.poll = "Error"
    /\ call.pre.cached_answers[AnsweredId(call.pre, call.idx)] /= call.answer

\* C2: a progress call whose answer has the wrong shape for the question being
\* answered returns the hard error InvalidAnswerType and changes nothing.
C2_WrongShapeIsHardError ==
    (/\ IsProgress
     /\ HasTarget(call.pre, call.idx)
     /\ ~Compatible(AnsweredQuestion(call.pre, call.idx), call.answer))
    => /\ ret.k = "Err" /\ ret.err = "InvalidAnswerType"
       /\ FormUnchanged

\* A selection of two options given to a single-choice question of the ledger.
C2_Witness ==
    /\ IsProgress
    /\ IsRewind(call.pre, call.idx)
    /\ AnsweredQuestion(call.pre, call.idx).type = "Select"
    /\ ~AnsweredQuestion(call.pre, call.idx).multiple
    /\ call.answer.kind = "Options" /\ Len(call.answer.selected) = 2
    /\ Compatible(AnsweredQuestion(call.pre, call.idx), Options(<<call.answer.selected[1]>>))
    /\ ret.k = "Err"

\* C3: after a successful rewind progress(i, a), i < |ledger|, the ledger is the
\* first i + 1 entries of the old ledger, get_question(j) is absent for j > i,
\* and pending is the script's new output.
C3_RewindTruncates ==
    (Successful /\ IsRewind(call.pre, call.idx))
    => /\ Len(script_states) = call.idx + 1
       /\ \A k \in 1 .. call.idx + 1 : script_states[k] = call.pre.script_states[k]
       /\ \A j \in Indices : j > call.idx => get_question(TheForm, j) = None
       /\ next_state = ScriptOutput(call.pre, call.idx, call.answer)

\* A rewind that re-submits the cached answer and discards later entries.
C3_Witness ==
    /\ Successful
    /\ call.idx + 1 < Len(call.pre.script_states)
    /\ call.pre.cached_answers[AnsweredId(call.pre, call.idx)] = call.answer

\* C4: after a successful advance progress(|ledger|, a) with pending Asking{id, q}
\* and snapshot s, the ledger is the old ledger with (id, q, s) appended and
\* pending is what the script just returned.
C4_AdvanceAppends ==
    (/\ Successful
     /\ call.idx = Len(call.pre.script_states)
     /\ call.pre.next_state[1].tag = "Asking")
    => /\ script_states =
            Append(call.pre.script_states,
                   <<call.pre.next_state[1].id, call.pre.next_state[1].question,
                     call.pre.next_state[2]>>)
       /\ next_state = ScriptOutput(call.pre, call.idx, call.answer)

\* An advance of a form with earlier entries, to a further question.
C4_Witness ==
    /\ Successful
    /\ call.idx = Len(call.pre.script_states)
    /\ call.idx >= 2
    /\ next_state[1].tag = "Asking"

\* C5: with pending Done, progress(i, a) with i >= |ledger| returns Done whatever
\* the answer, does not call the script and changes nothing.
C5_DonePastEndIsNoOp ==
    (/\ IsProgress
     /\ call.pre.next_state[1].tag = "Done"
     /\ call.idx >= Len(call.pre.script_states))
    => /\ ret = Okay(PollDone)
       /\ ~call.polled.some
       /\ FormUnchanged

\* Past the end of a completed form, with a text where no text question was asked last.
C5_Witness ==
    /\ IsProgress
    /\ call.pre.next_state[1].tag = "Done"
    /\ call.idx > Len(call.pre.script_states)
    /\ call.answer.kind = "Text"
    /\ call.pre.script_states[Len(call.pre.script_states)][2].type = "Select"
    /\ ret = Okay(PollDone)

\* C6: with pending Asking, progress(i, a) with i > |ledger| returns what
\* progress(|ledger|, a) returns and leaves the form it leaves; the accepted
\* question is appended at index |ledger|.
C6_PastEndActsAsAdvance ==
    (/\ IsProgress
     /\ call.pre.next_state[1].tag = "Asking"
     /\ call.idx > Len(call.pre.script_states))
    => LET atEnd == progress_with_answer(call.pre, driver_function, Parameters,
                                         Len(call.pre.script_states), call.answer)
       IN  /\ ret = atEnd.ret
           /\ TheForm = atEnd.form
           /\ Successful =>
                /\ Len(script_states) = Len(call.pre.script_states) + 1
                /\ script_states[Len(script_states)][1] = call.pre.next_state[1].id

\* An accepted answer given at an index two past the end of the ledger.
C6_Witness ==
    /\ Successful
    /\ call.pre.next_state[1].tag = "Asking"
    /\ call.idx > Len(call.pre.script_states) + 1
    /\ Len(script_states) >= 2

\* Two questions that accept the same answers.
SameShape(q1, q2) ==
    \/ q1.type \in {"Simple", "Multiline"} /\ q2.type \in {"Simple", "Multiline"}
    \/ /\ q1.type = "Select" /\ q2.type = "Select"
       /\ q1.options = q2.options /\ q1.multiple = q2.multiple

\* C7 as stated: every ledger entry (id, q, _) has an entry in answers for id, and
\* that answer is type-compatible with q.
C7_Original ==
    \A k \in DOMAIN script_states :
        /\ script_states[k][1] \in DOMAIN cached_answers
        /\ Compatible(script_states[k][2], cached_answers[script_states[k][1]])

\* C7, amended: every ledger entry (id, q, _) has an entry in answers for id, and
\* that answer is type-compatible with the question it was accepted for (the last
\* question answered under id), hence with q unless the script gave id to a
\* question of another shape.
C7_CachedAnswerFitsItsQuestion ==
    \A k \in DOMAIN script_states :
        LET id == script_states[k][1]
            q == script_states[k][2]
        IN  /\ id \in DOMAIN cached_answers
            /\ id \in DOMAIN answered_as
            /\ Compatible(answered_as[id], cached_answers[id])
            /\ SameShape(q, answered_as[id]) => Compatible(q, cached_answers[id])

\* A ledger with a selection cached for a select question, and an entry whose id
\* was answered last for a question of another shape.
C7_Witness ==
    /\ Len(script_states) >= 2
    /\ \E k \in DOMAIN script_states :
        /\ script_states[k][2].type = "Select"
        /\ Compatible(script_states[k][2], cached_answers[script_states[k][1]])
    /\ \E k \in DOMAIN script_states :
        ~SameShape(script_states[k][2], answered_as[script_states[k][1]])

\* C8 as stated: once pending is Done it is Done in every later state.
C8_Original ==
    [][next_state[1].tag = "Done" => next_state'[1].tag = "Done"]_vars

\* C8, amended: pending is always populated, Asking at first; once Done it stays
\* Done until a progress(i, a) with i < |ledger| commits and the script asks a
\* question again.
C8_DoneUntilRewind ==
    /\ next_state[1].tag = "Asking"
    /\ [](next_state[1].tag \in {"Asking", "Done"})
    /\ [][(next_state[1].tag = "Done" /\ next_state'[1].tag /= "Done")
            => /\ call'.op = "progress"
               /\ call'.idx < Len(script_states)
               /\ ret'.k = "Ok" /\ ret'.v.poll = "Question"]_vars

\* A completed form whose pending is a question again after a rewind.
C8_Witness ==
    /\ IsProgress
    /\ call.pre.next_state[1].tag = "Done"
    /\ next_state[1].tag = "Asking"

\* C9: from pending Done only a successful rewind changes pending; it sets
\* pending to the script's new output, Asking or Done; into_done is rejected
\* (the form handed back) when pending is Asking and returns the result held by
\* pending when it is Done.
C9_OnlyRewindLeavesDone ==
    [][/\ (next_state[1].tag = "Done" /\ next_state' /= next_state)
            => /\ call'.op = "progress"
               /\ call'.idx < Len(script_states)
               /\ ret'.k = "Ok" /\ ret'.v.poll \in {"Question", "Done"}
       /\ (/\ next_state[1].tag = "Done"
           /\ call'.op = "progress"
           /\ call'.idx < Len(script_states)
           /\ ret'.k = "Ok" /\ ret'.v.poll \in {"Question", "Done"})
            => next_state' = ScriptOutput(TheForm, call'.idx, call'.answer)
       /\ call'.op = "into_done"
            => IF next_state[1].tag = "Asking"
               THEN ret' = [k |-> "Err", form |-> TheForm] /\ live' /\ UNCHANGED formVars
               ELSE ret' = Okay(next_state[1].result)
      ]_vars

\* A rewind of a completed form that completes it again with another result.
C9_Witness ==
    /\ Successful
    /\ IsRewind(call.pre, call.idx)
    /\ call.pre.next_state[1].tag = "Done"
    /\ next_state[1].tag = "Done"
    /\ next_state[1].result /= call.pre.next_state[1].result

\* C10 as stated: when pending is Asking, |ledger| is the number of accepted
\* advances minus the number of rewinds that clobbered later history (counting
\* either the rewinds that removed ledger entries or all of them).
C10_Original ==
    next_state[1].tag = "Asking"
    => \/ Len(script_states) = advances - clobbers
       \/ Len(script_states) = advances - rewinds

\* C10, amended: |ledger| is the number of accepted advances minus the number of
\* ledger entries the rewinds discarded (|ledger| - (i + 1) for each rewind at i).
C10_LedgerLength == Len(script_states) = advances - discarded

\* A rewind discarded more than one entry and pending is a question.
C10_Witness ==
    /\ next_state[1].tag = "Asking"
    /\ clobbers >= 1
    /\ discarded > clobbers

\* C11: once an id was answered, its most recently accepted answer is the cached
\* answer handed out with every question of that id: by get_question for an
\* entry of the ledger, by next_question for pending, and by the
\* FormPoll::Question that announced pending, also after rewinds.
C11_IdStability ==
    \A id \in DOMAIN accepted :
        /\ \A k \in DOMAIN script_states :
              script_states[k][1] = id
              => get_question(TheForm, k - 1) = Some(<<script_states[k][2], Some(accepted[id])>>)
        /\ (next_state[1].tag = "Asking" /\ next_state[1].id = id)
              => /\ next_question(TheForm) = Some(<<next_state[1].question, Some(accepted[id])>>)
                 /\ (IsProgress /\ ret.k = "Ok" /\ ret.v.poll = "Question")
                      => ret.v = PollQuestion(next_state[1].question, Some(accepted[id]))

\* A rewind after which the script asks again a question answered before, of
\* another id than the one the rewind answered.
C11_Witness ==
    /\ Successful
    /\ IsRewind(call.pre, call.idx)
    /\ next_state[1].tag = "Asking"
    /\ next_state[1].id \in DOMAIN accepted
    /\ next_state[1].id /= AnsweredId(call.pre, call.idx)
    /\ ret.v.answer = Some(accepted[next_state[1].id])

\* C12: a successful progress call (advance or rewind) answering the question of
\* id with the answer a leaves answers as the map before with answers[id] := a:
\* no other key is added, changed or removed, and the entries of ids whose ledger
\* entries the truncation discarded remain.
C12_AnswersOverwriteOnly ==
    Successful
    => LET id == AnsweredId(call.pre, call.idx)
           before == call.pre.cached_answers
       IN  /\ DOMAIN cached_answers = DOMAIN before \cup {id}
           /\ cached_answers[id] = call.answer
           /\ \A x \in DOMAIN before : x /= id => cached_answers[x] = before[x]
           /\ \A k \in DOMAIN call.pre.script_states :
                 call.pre.script_states[k][1] \in DOMAIN cached_answers

\* A rewind that overwrote an answer and discarded the entry of an id that is
\* neither in the ledger nor pending any more, but still has its answer.
C12_Witness ==
    /\ Successful
    /\ IsRewind(call.pre, call.idx)
    /\ call.pre.cached_answers[AnsweredId(call.pre, call.idx)] /= call.answer
    /\ \E k \in DOMAIN call.pre.script_states :
          LET gone == call.pre.script_states[k][1]
          IN  /\ k > call.idx + 1
              /\ \A j \in DOMAIN script_states : script_states[j][1] /= gone
              /\ (next_state[1].tag = "Asking" => next_state[1].id /= gone)
              /\ gone \in DOMAIN cached_answers

\* C14: into_done succeeds exactly when pending is Done and then returns the
\* result document stored in pending; when pending is Asking it is rejected and
\* hands the form back with ledger, answers and pending as they were, so that
\* the form can be progressed further.
C14_IntoDone ==
    call.op = "into_done"
    => /\ ret.k = "Ok" <=> call.pre.next_state[1].tag = "Done"
       /\ ret.k = "Ok" => ret = Okay(call.pre.next_state[1].result) /\ ~live
       /\ ret.k /= "Ok"
            => /\ call.pre.next_state[1].tag = "Asking"
               /\ ret = [k |-> "Err", form |-> call.pre]
               /\ FormUnchanged
               /\ live

\* into_done rejected on a form with three answered questions and a fourth pending.
C14_Witness ==
    /\ call.op = "into_done"
    /\ ret.k = "Err"
    /\ Len(ret.form.script_states) = 3
    /\ ret.form.next_state[1].tag = "Asking"

\* C15: get_question(i) returns the question of ledger entry i together with the
\* answer cached for that entry's id when i < |ledger|, and nothing when
\* i >= |ledger|; it leaves ledger, answers and pending as they were.
C15_GetQuestion ==
    call.op = "get_question"
    => /\ FormUnchanged
       /\ IF call.idx < Len(script_states)
          THEN LET id == script_states[call.idx + 1][1]
               IN  ret = Some(<<script_states[call.idx + 1][2],
                                IF id \in DOMAIN cached_answers
                                THEN Some(cached_answers[id]) ELSE None>>)
          ELSE ret = None

\* The second of at least three answered questions is looked up, and differs
\* from its neighbours.
C15_Witness ==
    /\ call.op = "get_question"
    /\ call.idx = 1
    /\ Len(script_states) >= 3
    /\ ret.some /\ ret.v[2].some
    /\ ret.v[1] /= script_states[1][2] /\ ret.v[1] /= script_states[3][2]

\* C16 as stated: when progress(i, a) returns FormPoll::Error, the next_question()
\* that follows returns the question whose answer was just rejected.
C16_Original ==
    call.op = "reask"
    => ret.some /\ ret.v[1] = AnsweredQuestion(call.pre, call.idx)

\* C16, amended: when progress(i, a) returns FormPoll::Error, the next_question()
\* that follows returns pending, unchanged, with the answer cached for its id
\* before the call (never the rejected one).  That is the question whose answer
\* was just rejected when i >= |ledger|; when i < |ledger| the rejected question
\* is the one get_question(i) returns, and next_question returns nothing if
\* pending is Done.
C16_ReaskAfterError ==
    call.op = "reask"
    => LET pending == call.pre.next_state[1]
           before == call.pre.cached_answers
           suggested == IF pending.id \in DOMAIN before THEN Some(before[pending.id]) ELSE None
       IN  /\ FormUnchanged
           /\ IF call.idx >= Len(call.pre.script_states)
              THEN /\ pending.question = AnsweredQuestion(call.pre, call.idx)
                   /\ ret = Some(<<pending.question, suggested>>)
              ELSE /\ get_question(TheForm, call.idx).v[1] = AnsweredQuestion(call.pre, call.idx)
                   /\ IF pending.tag = "Asking"
                      THEN ret = Some(<<pending.question, suggested>>)
                      ELSE ret = None

\* The question asked again after its answer was rejected has an older answer
\* cached, which is suggested instead of the rejected one.
C16_Witness ==
    /\ call.op = "reask"
    /\ call.idx >= Len(call.pre.script_states)
    /\ ret.some /\ ret.v[2].some
    /\ ret.v[2].v /= call.answer

\* C17: first_question returns the question of pending in every state in which
\* no answer was accepted yet (rejected progress calls do not count), and panics
\* in every state reached after an answer was accepted, also after rewinds.
C17_FirstQuestion ==
    call.op = "first_question"
    => /\ FormUnchanged
       /\ IF DOMAIN accepted = {}
          THEN /\ next_state[1].tag = "Asking"
               /\ ret = [panic |-> FALSE, question |-> next_state[1].question]
               /\ live
          ELSE ret = [panic |-> TRUE] /\ ~live

\* first_question panics on a form rewound to its first question: one entry in
\* the ledger, the answers of the discarded entries still cached.
C17_Witness ==
    /\ call.op = "first_question"
    /\ ret.panic
    /\ Len(script_states) = 1
    /\ Cardinality(DOMAIN accepted) >= 3

\* C18: construction calls the script once, with (nil, nil, parameters).  If it
\* returns a question, the form starts with that question pending, an empty
\* ledger and no answers; if it returns an error, construction fails with
\* FirstPollFailed; if it returns done, with FirstPollDone.  No form starts with
\* pending Done.
C18_Construction ==
    call.op = "new"
    => LET first == RunScript(driver_function, Nil, Nil, Parameters).table
       IN  CASE first[1] = LStr("question") ->
                   /\ live
                   /\ DOMAIN cached_answers = {}
                   /\ script_states = <<>>
                   /\ next_state = <<from_lua("question", first[2]).v, LuaToJson(first[3])>>
                   /\ next_state[1].tag = "Asking"
             [] first[1] = LStr("error") ->
                   ~live /\ ret = HardErr("FirstPollFailed")
             [] first[1] = LStr("done") ->
                   ~live /\ ret = HardErr("FirstPollDone")

\* The construction with a script that is done at once has failed.
C18_Witness ==
    /\ call.op = "new"
    /\ RunScript(driver_function, Nil, Nil, Parameters).table[1] = LStr("done")
    /\ ret = HardErr("FirstPollDone")

\* C19: if the script raises while a progress call polls it, the call returns
\* the hard error RunDriverFailed, and ledger, answers and pending are the same
\* before and after the call.
C19_ScriptRaiseChangesNothing ==
    (/\ IsProgress
     /\ call.polled.some
     /\ ScriptReturn(call.pre, call.idx, call.answer).raised)
    => /\ ret = HardErr("RunDriverFailed")
       /\ FormUnchanged
       /\ live

\* The script raises for an answer that fits the question, given to an earlier
\* question than the last of the ledger and other than the one cached for it.
C19_Witness ==
    /\ IsProgress
    /\ call.idx + 1 < Len(call.pre.script_states)
    /\ Compatible(AnsweredQuestion(call.pre, call.idx), call.answer)
    /\ ScriptReturn(call.pre, call.idx, call.answer).raised
    /\ call.pre.cached_answers[AnsweredId(call.pre, call.idx)] /= call.answer
    /\ ret.k = "Err"

\* C20: the poll returned by a successful progress call agrees with the new
\* pending and with a next_question() called right after: it is
\* FormPoll::Question with pending's question and the answer cached for pending's
\* id (the answer just given when that is the id just answered) when pending is
\* Asking, and FormPoll::Done exactly when pending is Done, next_question() then
\* returning nothing.
C20_PollAgreesWithPending ==
    Successful
    => IF next_state[1].tag = "Asking"
       THEN LET id == next_state[1].id
            IN  /\ ret.v = PollQuestion(next_state[1].question,
                                        IF id \in DOMAIN cached_answers
                                        THEN Some(cached_answers[id]) ELSE None)
                /\ next_question(TheForm) = Some(<<ret.v.question, ret.v.answer>>)
                /\ id = AnsweredId(call.pre, call.idx) => ret.v.answer = Some(call.answer)
       ELSE /\ next_state[1].tag = "Done"
            /\ ret.v = PollDone
            /\ next_question(TheForm) = None

\* The script asks a question of the id just answered: the poll carries the
\* answer just given.
C20_Witness ==
    /\ Successful
    /\ next_state[1].tag = "Asking"
    /\ next_state[1].id = AnsweredId(call.pre, call.idx)
    /\ ret.v.answer = Some(call.answer)

\* C21: the validation of a progress call lets the answer a to the question q
\* through to the script exactly when q is Simple or Multiline and a is a Text,
\* or q is a Select, a is Options(sel), every element of sel is among q's
\* options and q is multiple or sel has at most one element; otherwise the call
\* fails with InvalidAnswerType.  A single-choice Select rejects two options, any
\* Select rejects an option it does not offer, and the empty selection passes.
C21_ValidationExact ==
    (IsProgress /\ HasTarget(call.pre, call.idx))
    => LET q == AnsweredQuestion(call.pre, call.idx)
           a == call.answer
       IN  /\ call.polled.some <=> Compatible(q, a)
           /\ ~call.polled.some <=> (ret.k = "Err" /\ ret.err = "InvalidAnswerType")
           /\ (q.type = "Select" /\ a.kind = "Options")
                => /\ (~q.multiple /\ Len(a.selected) > 1) => ~call.polled.some
                   /\ (\E i \in DOMAIN a.selected :
                          \A j \in DOMAIN q.options : q.options[j] /= a.selected[i])
                        => ~call.polled.some
                   /\ a.selected = <<>> => call.polled.some

\* The empty selection given to a single-choice question reached the script.
C21_Witness ==
    /\ IsProgress
    /\ HasTarget(call.pre, call.idx)
    /\ AnsweredQuestion(call.pre, call.idx).type = "Select"
    /\ ~AnsweredQuestion(call.pre, call.idx).multiple
    /\ call.answer = Options(<<>>)
    /\ call.polled.some

\* The cached answers the last call handed out, each with the question it came
\* with and the id it is cached under.
HandedOut ==
    CASE call.op \in {"next_question", "reask"} /\ ret.some /\ ret.v[2].some ->
            {[question |-> ret.v[1], answer |-> ret.v[2].v, id |-> next_state[1].id]}
      [] call.op = "get_question" /\ ret.some /\ ret.v[2].some ->
            {[question |-> ret.v[1], answer |-> ret.v[2].v,
              id |-> script_states[call.idx + 1][1]]}
      [] call.op = "progress" /\ ret.k = "Ok" /\ ret.v.poll = "Question" /\ ret.v.answer.some ->
            {[question |-> ret.v.question, answer |-> ret.v.answer.v, id |-> next_state[1].id]}
      [] OTHER -> {}

\* A selection made of options the question offers.
ValidFor(q, a) ==
    /\ q.type = "Select"
    /\ \A i \in DOMAIN a.selected : \E j \in DOMAIN q.options : q.options[j] = a.selected[i]

\* C22 as stated: every Answer::Options handed out with a question (by
\* get_question, next_question or FormPoll::Question) is paired with a Select
\* question and each of its elements is one of that question's options.
C22_Original ==
    \A h \in HandedOut : h.answer.kind = "Options" => ValidFor(h.question, h.answer)

\* C22, amended: every Answer::Options handed out with a question is valid for
\* the question it was accepted for (the last one answered under its id): that
\* was a Select question offering each of its elements; it is valid for the
\* question it is paired with when the script gave the id to questions of one
\* shape only.
C22_OptionsValidWhenAccepted ==
    \A h \in HandedOut :
        h.answer.kind = "Options"
        => /\ h.id \in DOMAIN answered_as
           /\ ValidFor(answered_as[h.id], h.answer)
           /\ accepted[h.id] = h.answer
           /\ SameShape(h.question, answered_as[h.id]) => ValidFor(h.question, h.answer)

\* get_question hands out a selection of two options with the question that
\* offered them.
C22_Witness ==
    /\ call.op = "get_question"
    /\ \E h \in HandedOut :
          /\ h.answer.kind = "Options"
          /\ Len(h.answer.selected) = 2
          /\ ValidFor(h.question, h.answer)

\* A question payload with id, text and one of the three types, whose `multiple`
\* is neither absent, nor null, nor a boolean.
OddMultiple ==
    /\ call.op = "from_lua"
    /\ call.state = "question"
    /\ call.props.lt = "table"
    /\ IsStringy(TGet(call.props, "id")) /\ IsStringy(TGet(call.props, "text"))
    /\ IsStringy(TGet(call.props, "type"))
    /\ AsString(TGet(call.props, "type")) \in {"simple", "multiline", "select"}
    /\ TGet(call.props, "multiple").lt \notin {"nil", "null", "boolean"}

\* C23 as stated: decoding a "question" return whose `multiple` is neither absent,
\* null nor boolean fails with InvalidMultipleProperty, whatever the question type.
C23_Original == OddMultiple => ret = HardErr("InvalidMultipleProperty")

\* C23, amended: decoding a "question" return whose `multiple` is neither absent,
\* null nor boolean fails with InvalidMultipleProperty when the type is select;
\* for the types simple and multiline `multiple` is not read and the question
\* is decoded.
C23_OddMultiple ==
    OddMultiple
    => IF TGet(call.props, "type") = LStr("select")
       THEN ret = HardErr("InvalidMultipleProperty")
       ELSE /\ ret.k = "Ok"
            /\ ret.v.tag = "Asking"
            /\ ret.v.question.type =
                  (IF TGet(call.props, "type") = LStr("simple") THEN "Simple" ELSE "Multiline")
            /\ ret.v.question.prompt = call.props.v.text.v

\* A select question with its options and a `multiple` that is a string.
C23_Witness ==
    /\ OddMultiple
    /\ TGet(call.props, "type") = LStr("select")
    /\ TGet(call.props, "options").lt = "array"
    /\ TGet(call.props, "multiple") = LStr("yes")
    /\ ret.k = "Err"

\* C24: the script call of progress(i, a) is passed (s, a, parameters), where s
\* is the snapshot stored with the question being answered (that of ledger entry
\* i on a rewind, that of pending on an advance) and parameters is the value
\* given at construction; the snapshot stored with pending is the one returned
\* by the call that emitted pending, and a ledger entry keeps the snapshot its
\* question was pending with.  The snapshot of another step is never passed.
C24_SnapshotOfTheQuestion ==
    [][/\ (call'.op = "progress" /\ call'.passed.some)
            => /\ call'.passed.v =
                    <<IF call'.idx < Len(script_states)
                      THEN script_states[call'.idx + 1][3] ELSE next_state[2],
                      call'.answer, Parameters>>
               /\ Committed(call')
                    => LET raw == RunScript(driver_function, JsonToLua(call'.passed.v[1]),
                                            to_lua(call'.passed.v[2]), call'.passed.v[3])
                       IN  /\ next_state'[2] = LuaToJson(raw.table[3])
                           /\ next_state'[1].tag = "Asking"
                                => JsonToLua(next_state'[2]) = raw.table[3]
       /\ \A k \in DOMAIN script_states' :
            IF k <= Len(script_states)
            THEN script_states'[k] = script_states[k]
            ELSE /\ k = Len(script_states) + 1
                 /\ script_states'[k] =
                      <<next_state[1].id, next_state[1].question, next_state[2]>>
      ]_vars

\* The script was called for an earlier question of the ledger, whose snapshot
\* differs from the one of the next entry and from the one of pending.
C24_Witness ==
    /\ IsProgress
    /\ call.passed.some
    /\ call.idx >= 1
    /\ call.idx + 1 < Len(call.pre.script_states)
    /\ call.passed.v[1] = call.pre.script_states[call.idx + 1][3]
    /\ call.passed.v[1] /= call.pre.script_states[call.idx + 2][3]
    /\ call.passed.v[1] /= call.pre.next_state[2]

\* C25: the script is never called with an answer of the wrong shape for the
\* question being answered: the answer table it receives from a progress call
\* is a text for a Simple or Multiline question, and for a Select question a
\* selection of options of that question, of at most one unless it is multiple.
C25_ScriptSeesValidAnswers ==
    (IsProgress /\ call.passed.some)
    => LET q == AnsweredQuestion(call.pre, call.idx)
           table == to_lua(call.passed.v[2])
       IN  /\ call.passed.v[2] = call.answer
           /\ IF q.type \in {"Simple", "Multiline"}
              THEN /\ TGet(table, "type") = LStr("text")
                   /\ TGet(table, "text").lt = "string"
              ELSE /\ TGet(table, "type") = LStr("options")
                   /\ TGet(table, "selected").lt = "array"
                   /\ \A i \in DOMAIN TGet(table, "selected").v :
                         \E j \in DOMAIN q.options :
                             TGet(table, "selected").v[i] = LStr(q.options[j])
                   /\ q.multiple \/ Len(TGet(table, "selected").v) <= 1

\* The script received two options for a multiple-choice question of the ledger.
C25_Witness ==
    /\ IsProgress
    /\ call.passed.some
    /\ IsRewind(call.pre, call.idx)
    /\ AnsweredQuestion(call.pre, call.idx).type = "Select"
    /\ Len(call.passed.v[2].selected) = 2

C27_CliIndexIsLedgerLength ==
    /\ call.op = "progress"
        => /\ call.idx = Len(call.pre.script_states)
           /\ call.idx = core.question_idx
           /\ call.pre.next_state[1].tag = "Asking"
           /\ core.pc = "loop" => core.question_idx = Len(script_states) - (IF Successful THEN 1 ELSE 0)
    /\ call.op = "reask" => core.question_idx = Len(script_states) /\ core.reasking
    /\ core.pc /= "panicked"
    /\ core.pc = "failed" => call.op = "progress" /\ ret.k = "Err"
    /\ core.pc = "output"
        => /\ call.op = "into_done"
           /\ call.pre.next_state[1].tag = "Done"
           /\ ret = Okay(call.pre.next_state[1].result)
           /\ core.question_idx + 1 = Len(script_states)

\* The second question was asked again after an Error, and the answer then
\* given at the same index was accepted.
C27_Witness ==
    /\ call.op = "progress"
    /\ call.idx = 1
    /\ core.pc = "loop"
    /\ core.again
    /\ Successful

\* What the script gives for an answer to the question of a ledger entry:
\* the entry (id, question, snapshot) that would follow it, when it is a question.
Replay(entry, answer) ==
    get_script_state(driver_function, Parameters, entry[3], answer)
FollowsFrom(next, entry, answer) ==
    LET out == Replay(entry, answer)
    IN  /\ out.k = "Ok"
        /\ out.v[1].tag = "Asking"
        /\ next = <<out.v[1].id, out.v[1].question, out.v[2]>>
PendingFrom(entry, answer) ==
    /\ entry[1] \in DOMAIN cached_answers
    /\ Replay(entry, answer) = Okay(next_state)

C29_LedgerEmptyIffNoAnswers ==
    /\ (Len(script_states) = 0) <=> (DOMAIN cached_answers = {})
    /\ DOMAIN accepted /= {} => Len(script_states) >= 1
    /\ call.op = "progress" /\ Len(call.pre.script_states) >= 1 => Len(script_states) >= 1
    /\ call.op = "first_question" => ret.panic = (Len(script_states) >= 1)

\* A rewind to the first question of a ledger of three entries: one entry is
\* left, with the answers of all three cached.
C29_Witness ==
    /\ call.op = "progress"
    /\ call.idx = 0
    /\ Len(call.pre.script_states) = 3
    /\ Len(script_states) = 1
    /\ Cardinality(DOMAIN cached_answers) = 3

\* The last call gave progress_with_answer, at an index of the ledger, the
\* answer cached for the id of that entry.
ResubmittedCached ==
    /\ call.op = "progress"
    /\ call.idx < Len(call.pre.script_states)
    /\ call.answer = call.pre.cached_answers[call.pre.script_states[call.idx + 1][1]]

\* Pending is the question and snapshot of a ledger entry.
PendingIs(entry) == next_state = <<Asking(entry[1], entry[2]), entry[3]>>

Fault(raw) ==
    IF raw.raised THEN "none"
    ELSE IF raw.table[1].lt /= "string" THEN "InvalidResult"
    ELSE IF raw.table[1].v \notin {"question", "error", "done"} THEN "InvalidState"
    ELSE IF raw.table[1].v = "done" THEN "none"
    ELSE IF raw.table[1].v = "error"
         THEN IF raw.table[2].lt /= "string" THEN "NonStringErrorMessage" ELSE "none"
    ELSE IF raw.table[2].lt /= "table" THEN "NonTableQuestion"
    ELSE IF "id" \notin DOMAIN raw.table[2].v THEN "NoIdInQuestionData"
    ELSE IF "type" \notin DOMAIN raw.table[2].v THEN "NoTypeInQuestionData"
    ELSE IF "text" \notin DOMAIN raw.table[2].v THEN "NoBodyInQuestionData"
    ELSE IF raw.table[2].v.type.v \notin {"simple", "multiline", "select"}
         THEN "InvalidQuestionType"
    ELSE IF raw.table[2].v.type.v /= "select" THEN "none"
    ELSE IF "options" \notin DOMAIN raw.table[2].v THEN "NoOptionsInQuestionData"
    ELSE IF /\ "default" \in DOMAIN raw.table[2].v
            /\ \A i \in DOMAIN raw.table[2].v.options.v :
                  raw.table[2].v.options.v[i] /= raw.table[2].v.default
         THEN "DefaultNotInOptions"
    ELSE "none"

\* C31: every progress call that returns a hard Err leaves ledger, answers and
\* pending as they were before the call, and a malformed output of the script
\* (unknown tag, question payload that is no table, missing id, type, text or
\* options, invalid question type, default not in options, error payload that
\* is no string) is such a call; the form changes only in a call that committed
\* an answer and returns FormPoll::Question or FormPoll::Done.
C31_HardErrorChangesNothing ==
    IsProgress
    => /\ ret.k = "Err" => FormUnchanged /\ live
       /\ ~FormUnchanged
            => /\ ret.k = "Ok"
               /\ ret.v.poll \in {"Question", "Done"}
               /\ call.polled.some
               /\ call.polled.v.k = "Ok"
       /\ (/\ call.polled.some
           /\ Fault(ScriptReturn(call.pre, call.idx, call.answer)) /= "none")
            => ret = HardErr(Fault(ScriptReturn(call.pre, call.idx, call.answer)))

\* A finished form of two ledger entries was given, for its first question, a
\* selection other than the cached one, for which the script returns a select
\* question whose default is none of its options.
C31_Witness ==
    /\ IsProgress
    /\ call.idx = 0
    /\ Len(call.pre.script_states) = 2
    /\ call.pre.next_state[1].tag = "Done"
    /\ call.answer /= call.pre.cached_answers[AnsweredId(call.pre, 0)]
    /\ call.polled.some
    /\ Fault(ScriptReturn(call.pre, call.idx, call.answer)) = "DefaultNotInOptions"
    /\ ret.k = "Err"

====
